---- MODULE Spec2Model ----
(***************************************************************************)
(* Model of the change-tracked PDF -> Markdown pipeline of                 *)
(* obsidian_pdf_converter.py (class ObsidianPDFConverter), and of the      *)
(* collection migration of migrate_to_qdrant_cloud.py and the vector store *)
(* of qdrant_store.py.                                                     *)
(*                                                                         *)
(* Paths are sequences of path parts (pathlib's parts without the leading  *)
(* "/"); the characters of a part are looked up in Chars, so that str()    *)
(* based tests (str.startswith) and parts based tests (Path.relative_to)   *)
(* are computed as the code computes them and can disagree.                *)
(* Texts are modelled by their lengths; page texts and LlamaParse texts    *)
(* are taken to have no leading or trailing whitespace of their own.       *)
(* hashlib.md5 is modelled as injective on file contents.                  *)
(***************************************************************************)
EXTENDS Integers, Sequences, FiniteSets, TLC

VARIABLES
    vault_root,     \* self.vault_root: the resolved path of the vault
    files,          \* the PDF files on disk: path -> content
    md,             \* the .md sibling of each PDF path: NoFile, PartialFile or a document
    tracking_data,  \* self.tracking_data: [processed, failed], keyed by relative path
    tracking_file,  \* .pdf_conversion_tracking.json on disk
    llamaparse_parser, \* self.llamaparse_parser is configured
    clock,          \* datetime.now()
    faults,         \* the I/O errors that have happened
    scan,           \* the running scan_vault call: position, stats
    last,           \* observation of the last call: arguments, snapshot, outcome
    local_client,   \* migration: the collections of the local Qdrant storage
    cloud_client,   \* migration: the collections of Qdrant Cloud
    migration,      \* migration: the position of migrate_qdrant_to_cloud, its locals
    client          \* QdrantVectorStore: the points of its collection, id -> payload

\* the state of migrate_to_qdrant_cloud.py, which the converter does not touch
migration_vars == <<local_client, cloud_client, migration>>

vars == <<vault_root, files, md, tracking_data, tracking_file, llamaparse_parser, clock,
          faults, scan, last, migration_vars, client>>

----------------------------------------------------------------------------
(* Bounds *)

\* number of conversion attempts (clock readings) in a behaviour
MaxClock == 2
\* number of I/O errors (unreadable input, unwritable output or tracking file)
MaxFaults == 1
\* pages of a PDF in the quality-gate specification
MaxPages == 4
\* folders between the vault root and a PDF in the classification specification
MaxDepth == 2
\* points of the largest local collection in the migration specifications
MaxPoints == 101
\* documents of an add_documents call and ids of a get_by_ids call
MaxDocs == 2

----------------------------------------------------------------------------
(* Strings and paths *)

\* the characters of every path part the model uses
Chars ==
    [ v      |-> <<"v">>,
      v2     |-> <<"v", "2">>,
      o      |-> <<"o">>,
      books  |-> <<"b", "o", "o", "k", "s">>,
      dotgit |-> <<".", "g", "i", "t">>,
      a_pdf  |-> <<"a", ".", "p", "d", "f">>,
      b_pdf  |-> <<"b", ".", "p", "d", "f">>,
      g_pdf  |-> <<"g", ".", "p", "d", "f">>,
      s_pdf  |-> <<"s", ".", "p", "d", "f">>,
      o_pdf  |-> <<"o", ".", "p", "d", "f">>,
      a_md   |-> <<"a", ".", "m", "d">>,
      b_md   |-> <<"b", ".", "m", "d">>,
      g_md   |-> <<"g", ".", "m", "d">>,
      s_md   |-> <<"s", ".", "m", "d">>,
      o_md   |-> <<"o", ".", "m", "d">>,
      w_pdf  |-> <<"w", ".", "p", "d", "f">>,
      w_md   |-> <<"w", ".", "m", "d">>,
      Knowledge |-> <<"K", "n", "o", "w", "l", "e", "d", "g", "e">>,
      Founders  |-> <<"F", "o", "u", "n", "d", "e", "r", "s">>,
      Books     |-> <<"B", "o", "o", "k", "s">>,
      Admin     |-> <<"A", "d", "m", "i", "n">>,
      my_files  |-> <<"m", "y", "_", "f", "i", "l", "e", "s">>,
      Barcodes  |-> <<"B", "a", "r", "c", "o", "d", "e", "s">>,
      Invest_Like_The_Best |->
          <<"I", "n", "v", "e", "s", "t", " ", "L", "i", "k", "e", " ", "T", "h", "e", " ",
            "B", "e", "s", "t">> ]

\* str(path): "/" + part for each part
RECURSIVE Str(_)
Str(path) ==
    IF path = <<>> THEN <<>>
    ELSE <<"/">> \o Chars[Head(path)] \o Str(Tail(path))

\* s.startswith(t) on character sequences
startswith(s, t) == Len(t) <= Len(s) /\ SubSeq(s, 1, Len(t)) = t

\* s.endswith(t) on character sequences
endswith(s, t) == Len(t) <= Len(s) /\ SubSeq(s, Len(s) - Len(t) + 1, Len(s)) = t

\* Path.relative_to(root) succeeds: root's parts are a prefix of path's parts
is_relative_to(path, root) ==
    Len(root) <= Len(path) /\ SubSeq(path, 1, Len(root)) = root

\* Path.relative_to(root), where it does not raise ValueError
relative_to(path, root) == SubSeq(path, Len(root) + 1, Len(path))

\* Path.parent: the directory of a path
parent(path) == SubSeq(path, 1, Len(path) - 1)

\* str() of a relative path: its parts joined by "/", and "." for Path('.')
str_relative(path) == IF path = <<>> THEN <<".">> ELSE Tail(Str(path))

\* the index of the last "." of a file name (0: none)
RECURSIVE LastDot(_, _)
LastDot(name, i) ==
    IF i = 0 THEN 0 ELSE IF name[i] = "." THEN i ELSE LastDot(name, i - 1)

\* the part whose characters are chars
PartOf(chars) == CHOOSE n \in DOMAIN Chars : Chars[n] = chars

\* Path.with_suffix(suffix): the last part's suffix replaced
with_suffix(path, suffix) ==
    LET name == Chars[path[Len(path)]]
        dot == LastDot(name, Len(name))
        stem == IF dot > 1 THEN SubSeq(name, 1, dot - 1) ELSE name
    IN  SubSeq(path, 1, Len(path) - 1) \o <<PartOf(stem \o suffix)>>

\* the output file of a PDF: pdf_path.with_suffix('.md')
md_path_of(pdf_path) == with_suffix(pdf_path, <<".", "m", "d">>)

\* the vault the converter is constructed on (--vault)
Vault == <<"v">>

\* self.skip_dirs; ".git" is the part named dotgit
skip_dirs == {"dotgit"}

PathA == <<"v", "a_pdf">>
PathB == <<"v", "books", "b_pdf">>
PathG == <<"v", "dotgit", "g_pdf">>
PathS == <<"v2", "s_pdf">>
PathO == <<"o", "o_pdf">>
PathW == <<"dotgit", "v", "w_pdf">>

\* every PDF of the modelled file system
AllPaths == {PathA, PathB, PathG, PathS, PathO, PathW}

\* the paths given to convert_pdf by main()'s --file; the other PDFs of the vault
\* are converted by scan_vault
DirectPaths == {PathA, PathS, PathO}

\* the PDFs another actor may rewrite
Modifiable == {PathA}

----------------------------------------------------------------------------
(* Classification and tags *)

Upper == <<"A", "B", "C", "D", "E", "F", "G", "H", "I", "J", "K", "L", "M",
           "N", "O", "P", "Q", "R", "S", "T", "U", "V", "W", "X", "Y", "Z">>
Lower == <<"a", "b", "c", "d", "e", "f", "g", "h", "i", "j", "k", "l", "m",
           "n", "o", "p", "q", "r", "s", "t", "u", "v", "w", "x", "y", "z">>

\* the characters of the model's strings, in the order of their code points
Alphabet == <<" ", "-", ".", "/", "0", "1", "2", "3", "4", "5", "6", "7", "8", "9">>
            \o Upper \o <<"_">> \o Lower

\* str.lower()
lower_char(c) ==
    IF \E i \in 1..Len(Upper) : Upper[i] = c
    THEN Lower[CHOOSE i \in 1..Len(Upper) : Upper[i] = c]
    ELSE c
lower(s) == [i \in 1..Len(s) |-> lower_char(s[i])]

\* str.replace(old, new) for one-character strings
replace(s, old, new) == [i \in 1..Len(s) |-> IF s[i] = old THEN new ELSE s[i]]

\* t in s, for strings
contains(s, t) == \E i \in 0..(Len(s) - Len(t)) : SubSeq(s, i + 1, i + Len(t)) = t

\* a < b for strings: by code point, a proper prefix first
ord(c) == CHOOSE i \in 1..Len(Alphabet) : Alphabet[i] = c
RECURSIVE str_less(_, _)
str_less(a, b) ==
    IF b = <<>> THEN FALSE
    ELSE IF a = <<>> THEN TRUE
    ELSE IF Head(a) = Head(b) THEN str_less(Tail(a), Tail(b))
    ELSE ord(Head(a)) < ord(Head(b))

\* self.category_patterns, in the order of the dict
category_patterns ==
    << [pattern  |-> <<"k", "n", "o", "w", "l", "e", "d", "g", "e", "/", "b", "u", "s",
                       "i", "n", "e", "s", "s", " ", "b", "r", "e", "a", "k", "d", "o",
                       "w", "n", "s">>,
        category |-> <<"b", "u", "s", "i", "n", "e", "s", "s", "-", "a", "n", "a", "l",
                       "y", "s", "i", "s">>],
       [pattern  |-> <<"k", "n", "o", "w", "l", "e", "d", "g", "e", "/", "f", "o", "u",
                       "n", "d", "e", "r", "s">>,
        category |-> <<"b", "i", "o", "g", "r", "a", "p", "h", "y">>],
       [pattern  |-> <<"k", "n", "o", "w", "l", "e", "d", "g", "e", "/", "i", "n", "v",
                       "e", "s", "t", " ", "l", "i", "k", "e", " ", "t", "h", "e", " ",
                       "b", "e", "s", "t">>,
        category |-> <<"i", "n", "v", "e", "s", "t", "m", "e", "n", "t", "-", "r", "e",
                       "s", "e", "a", "r", "c", "h">>],
       [pattern  |-> <<"b", "o", "o", "k", "s">>,
        category |-> <<"b", "o", "o", "k", "s">>],
       [pattern  |-> <<"a", "d", "m", "i", "n">>,
        category |-> <<"a", "d", "m", "i", "n", "-", "l", "e", "g", "a", "l">>],
       [pattern  |-> <<"l", "e", "g", "a", "l">>,
        category |-> <<"a", "d", "m", "i", "n", "-", "l", "e", "g", "a", "l">>],
       [pattern  |-> <<"c", "o", "d", "e">>,
        category |-> <<"c", "o", "d", "e", "-", "d", "o", "c", "u", "m", "e", "n", "t",
                       "a", "t", "i", "o", "n">>] >>

general == <<"g", "e", "n", "e", "r", "a", "l">>

\* self.notable_figures
notable_figures ==
    {<<"b", "u", "f", "f", "e", "t", "t">>,
     <<"w", "a", "r", "r", "e", "n", " ", "b", "u", "f", "f", "e", "t", "t">>,
     <<"b", "e", "z", "o", "s">>,
     <<"j", "e", "f", "f", " ", "b", "e", "z", "o", "s">>,
     <<"m", "u", "s", "k">>,
     <<"e", "l", "o", "n", " ", "m", "u", "s", "k">>,
     <<"j", "o", "b", "s">>,
     <<"s", "t", "e", "v", "e", " ", "j", "o", "b", "s">>,
     <<"g", "a", "t", "e", "s">>,
     <<"b", "i", "l", "l", " ", "g", "a", "t", "e", "s">>,
     <<"g", "r", "a", "h", "a", "m">>,
     <<"p", "a", "u", "l", " ", "g", "r", "a", "h", "a", "m">>,
     <<"t", "h", "i", "e", "l">>,
     <<"p", "e", "t", "e", "r", " ", "t", "h", "i", "e", "l">>,
     <<"z", "u", "c", "k", "e", "r", "b", "e", "r", "g">>}

notable_figure == <<"n", "o", "t", "a", "b", "l", "e", "-", "f", "i", "g", "u", "r", "e">>

\* the folder names _generate_tags makes no tag of
tag_stoplist ==
    {<<"k", "n", "o", "w", "l", "e", "d", "g", "e">>,
     <<"d", "o", "c", "u", "m", "e", "n", "t", "s">>,
     <<"f", "i", "l", "e", "s">>}

\* texts: one naming a figure, one with a figure's name inside a word, one with
\* no figure
TextJobs == <<"S", "t", "e", "v", "e", " ", "J", "o", "b", "s">>
TextMusket == <<"a", " ", "m", "u", "s", "k", "e", "t">>
TextMemo == <<"M", "e", "m", "o">>

\* the loop of _categorize_from_path over the patterns, from the i-th on, with the
\* rule the loop keeps being the last that matches
RECURSIVE last_match(_, _, _)
last_match(path_lower, i, found) ==
    IF i > Len(category_patterns) THEN found
    ELSE last_match(path_lower, i + 1,
                    IF contains(path_lower, category_patterns[i].pattern)
                    THEN category_patterns[i].category ELSE found)

\* _categorize_from_path returning the category of the last rule that matches
categorize_from_path_last_match(pdf_path) ==
    LET relative_path == relative_to(pdf_path, vault_root)
        path_lower == lower(str_relative(parent(relative_path)))
    IN  last_match(path_lower, 1, general)

\* the loop of _categorize_from_path over the patterns, from the i-th on
RECURSIVE first_match(_, _)
first_match(path_lower, i) ==
    IF i > Len(category_patterns) THEN general
    ELSE IF contains(path_lower, category_patterns[i].pattern)
    THEN category_patterns[i].category
    ELSE first_match(path_lower, i + 1)

\* _categorize_from_path(pdf_path), pdf_path being under the root
categorize_from_path(pdf_path) ==
    LET relative_path == relative_to(pdf_path, vault_root)
        path_lower == lower(str_relative(parent(relative_path)))
    IN  first_match(path_lower, 1)

\* part.lower().replace(" ", "-").replace("_", "-")
folder_tag(part) == replace(replace(lower(Chars[part]), " ", "-"), "_", "-")

\* the set `tags` of _generate_tags before it is listed and sorted
tag_set(pdf_path, text_content, category) ==
    LET parts == parent(relative_to(pdf_path, vault_root))
        text_lower == lower(text_content)
    IN  {tag \in {folder_tag(parts[i]) : i \in 1..Len(parts)} :
            tag # <<>> /\ tag \notin tag_stoplist}
        \cup (IF category # general THEN {category} ELSE {})
        \cup (IF \E figure \in notable_figures : contains(text_lower, figure)
              THEN {notable_figure} ELSE {})

\* list(tags): the elements of a set in the order the set iterates, which is any
RECURSIVE listings(_)
listings(S) ==
    IF S = {} THEN {<<>>}
    ELSE UNION {{<<x>> \o q : q \in listings(S \ {x})} : x \in S}

\* sorted(): insertion of x into the ascending list q
RECURSIVE insert(_, _)
insert(q, x) ==
    IF q = <<>> THEN <<x>>
    ELSE IF str_less(x, Head(q)) THEN <<x>> \o q
    ELSE <<Head(q)>> \o insert(Tail(q), x)

RECURSIVE sorted(_)
sorted(q) == IF q = <<>> THEN <<>> ELSE insert(sorted(Tail(q)), Head(q))

\* _generate_tags returning list(tags) as the set iterates
generate_tags_unsorted(pdf_path, text_content, category) ==
    listings(tag_set(pdf_path, text_content, category))

\* _generate_tags: the lists it can return, one for each order in which the set
\* iterates
generate_tags(pdf_path, text_content, category) ==
    {sorted(order) : order \in listings(tag_set(pdf_path, text_content, category))}

----------------------------------------------------------------------------
(* File contents, fingerprints *)

\* a PDF: pdfplumber cannot open it (malformed), or it has pages whose
\* extract_text() results have the given lengths (0: no text on the page); words
\* is what the text extracted from it, by either strategy, has for _generate_tags
\* to find
Content(malformed, pages) == [malformed |-> malformed, pages |-> pages, words |-> <<>>]

Good      == [Content(FALSE, <<120>>) EXCEPT !.words = TextJobs]
Short40   == Content(FALSE, <<40>>)
Malformed == Content(TRUE, <<>>)

MainContents == {Good, Short40, Malformed}

\* _calculate_md5: the digest of the file's bytes (injective on contents)
md5(c) == [md5_of |-> c]

NoEntry == [none |-> TRUE]
NoFile == [file |-> "absent"]
PartialFile == [file |-> "truncated"]
NoError == [msg |-> "none"]

----------------------------------------------------------------------------
(* Skip decision *)

\* _should_process reading the stored fingerprint under a key the record does not
\* have: .get() gives None, which equals no fingerprint
should_process_wrong_key(td, pdf_str, current_hash) ==
    IF pdf_str \in DOMAIN td.processed
    THEN [process |-> TRUE, reason |-> "File modified (hash changed)"]
    ELSE IF pdf_str \in DOMAIN td.failed
         THEN [process |-> TRUE, reason |-> "Retry failed conversion"]
         ELSE [process |-> TRUE, reason |-> "New file"]

\* _should_process skipping every path that has a record, its fingerprint unread
should_process_by_presence(td, pdf_str, current_hash) ==
    IF pdf_str \in DOMAIN td.processed
    THEN [process |-> FALSE, reason |-> "Already processed (hash match)"]
    ELSE IF pdf_str \in DOMAIN td.failed
         THEN [process |-> TRUE, reason |-> "Retry failed conversion"]
         ELSE [process |-> TRUE, reason |-> "New file"]

\* _should_process, after the fingerprint was computed: (should_process, reason)
should_process(td, pdf_str, current_hash) ==
    IF pdf_str \in DOMAIN td.processed
    THEN IF td.processed[pdf_str].hash = current_hash
         THEN [process |-> FALSE, reason |-> "Already processed (hash match)"]
         ELSE [process |-> TRUE, reason |-> "File modified (hash changed)"]
    ELSE IF pdf_str \in DOMAIN td.failed
         THEN [process |-> TRUE, reason |-> "Retry failed conversion"]
         ELSE [process |-> TRUE, reason |-> "New file"]

----------------------------------------------------------------------------
(* Extraction *)

\* the quality gates' minimum length
QualityGate == 100

RECURSIVE SumSeq(_)
SumSeq(s) == IF s = <<>> THEN 0 ELSE Head(s) + SumSeq(Tail(s))

\* len(str(n)) for the page numbers of the model
Digits(n) == IF n < 10 THEN 1 ELSE IF n < 100 THEN 2 ELSE 3

\* len(f"---\n### Page {page_num} of {total_pages}\n")
PageMarkerLen(page_num, total_pages) ==
    4 + 9 + Digits(page_num) + 4 + Digits(total_pages) + 1

\* the lengths of the elements of markdown_lines: for every page with text, its
\* marker, its text and "\n"
RECURSIVE markdown_lines(_, _)
markdown_lines(pages, page_num) ==
    IF page_num > Len(pages) THEN <<>>
    ELSE (IF pages[page_num] > 0
          THEN <<PageMarkerLen(page_num, Len(pages)), pages[page_num], 1>>
          ELSE <<>>)
         \o markdown_lines(pages, page_num + 1)

\* len("\n".join(lines))
JoinedLen(lines) == SumSeq(lines) + (IF Len(lines) > 0 THEN Len(lines) - 1 ELSE 0)

\* len(full_text.strip()): the last element "\n" and the separator before it go
StrippedLen(lines) == IF Len(lines) > 0 THEN JoinedLen(lines) - 2 ELSE 0

ErrorMsg(msg, n) == [msg |-> msg, len |-> n]

\* the result of an extraction strategy
Extracted(method, n) == [ok |-> TRUE, method |-> method, len |-> n, error |-> NoError]
Failed(error) == [ok |-> FALSE, method |-> "none", len |-> 0, error |-> error]

\* the quality gate of _extract_text_with_pdfplumber on the joined lines
pdfplumber_gate(lines) ==
    IF StrippedLen(lines) < QualityGate
    THEN Failed(ErrorMsg("Extracted text too short", JoinedLen(lines)))
    ELSE Extracted("pdfplumber", JoinedLen(lines))

\* _extract_text_with_pdfplumber on a file of content c
extract_text_with_pdfplumber(c) ==
    IF c.malformed
    THEN Failed(ErrorMsg("pdfplumber could not open the file", 0))
    ELSE pdfplumber_gate(markdown_lines(c.pages, 1))

\* what the LlamaParse service does with a request: it raises, or returns a text
LlamaRaises == [raises |-> TRUE, len |-> 0]
LlamaText(n) == [raises |-> FALSE, len |-> n]
LlamaOutcomes == {LlamaRaises, LlamaText(50), LlamaText(150)}

\* _extract_text_with_llamaparse, the service answering lp
extract_text_with_llamaparse(parser, lp) ==
    IF ~parser
    THEN Failed(ErrorMsg("LlamaParse not available or not initialized", 0))
    ELSE IF lp.raises
    THEN Failed(ErrorMsg("LlamaParse request failed", 0))
    ELSE IF lp.len < QualityGate
    THEN Failed(ErrorMsg("LlamaParse extraction too short", lp.len))
    ELSE Extracted("llamaparse", lp.len)

\* a strategy that was not called
NotCalled == [ok |-> FALSE, method |-> "none", len |-> 0, error |-> [msg |-> "not called"]]

\* f"Both methods failed. pdfplumber: {pdfplumber_error}, LlamaParse: {llamaparse_error}"
BothFailed(pdfplumber_error, llamaparse_error) ==
    [msg |-> "Both methods failed",
     pdfplumber |-> pdfplumber_error, LlamaParse |-> llamaparse_error]

\* the fallback chain raising the LlamaParse error alone when both strategies failed
extract_last_error_only(c, parser, lp) ==
    LET primary == extract_text_with_pdfplumber(c)
        secondary == extract_text_with_llamaparse(parser, lp)
    IN  IF primary.ok
        THEN [calls |-> <<"pdfplumber">>, primary |-> primary,
              secondary |-> NotCalled, result |-> primary]
        ELSE IF parser
        THEN [calls |-> <<"pdfplumber", "llamaparse">>, primary |-> primary,
              secondary |-> secondary,
              result |-> IF secondary.ok THEN secondary ELSE Failed(secondary.error)]
        ELSE [calls |-> <<"pdfplumber">>, primary |-> primary,
              secondary |-> NotCalled, result |-> Failed(primary.error)]

\* convert_pdf's fallback chain: the strategies called, in order, with what each
\* gave, and the text or the exception that leaves the inner try
extract(c, parser, lp) ==
    LET primary == extract_text_with_pdfplumber(c)
        secondary == extract_text_with_llamaparse(parser, lp)
    IN  IF primary.ok
        THEN [calls |-> <<"pdfplumber">>, primary |-> primary,
              secondary |-> NotCalled, result |-> primary]
        ELSE IF parser
        THEN [calls |-> <<"pdfplumber", "llamaparse">>, primary |-> primary,
              secondary |-> secondary,
              result |-> IF secondary.ok THEN secondary
                         ELSE Failed(BothFailed(primary.error, secondary.error))]
        ELSE [calls |-> <<"pdfplumber">>, primary |-> primary,
              secondary |-> NotCalled, result |-> Failed(primary.error)]

----------------------------------------------------------------------------
(* Stores and files *)

Put(f, k, v) == [x \in DOMAIN f \cup {k} |-> IF x = k THEN v ELSE f[x]]
Del(f, k) == [x \in DOMAIN f \ {k} |-> f[x]]
Entry(f, k) == IF k \in DOMAIN f THEN f[k] ELSE NoEntry

\* _load_tracking_data when the tracking file does not exist
EmptyStore == [processed |-> <<>>, failed |-> <<>>]

\* self.tracking_data[name] does not raise KeyError (or TypeError, the loaded value
\* not being a dict): the value is an object that has the sub-map
has_sub_map(td, name) == name \in DOMAIN td

\* the sub-map, empty where there is none
sub_map(td, name) == IF has_sub_map(td, name) THEN td[name] ELSE <<>>

\* json.dump(self.tracking_data): the text of the tracking file
json_dump(td) == [json |-> td]

\* _load_tracking_data: no file gives the empty store; a text that is not valid
\* JSON (an emptied or half-written file) raises JSONDecodeError, which gives the
\* empty store; any valid JSON text gives the value json.load returns
load_tracking_data(tf) ==
    IF tf = NoFile THEN EmptyStore
    ELSE IF tf = PartialFile THEN EmptyStore
    ELSE tf.json

\* how open(.., 'w') followed by a write can end, n I/O errors having happened
WriteOutcomes(n) ==
    IF n < MaxFaults THEN {"ok", "open fails", "write fails"} ELSE {"ok"}

\* how reading the input for _calculate_md5 can end
ReadOutcomes(n) == IF n < MaxFaults THEN {"ok", "read fails"} ELSE {"ok"}

Fault(outcome) == IF outcome = "ok" THEN 0 ELSE 1

\* the file after such a write: rewritten, untouched, or truncated by open()
written(old, new, w) ==
    IF w = "ok" THEN new ELSE IF w = "open fails" THEN old ELSE PartialFile

\* the record convert_pdf stores under "processed"
processed_record(pdf_path, c, now, method, tags) ==
    [hash |-> md5(c),
     converted_date |-> now,
     md_path |-> relative_to(md_path_of(pdf_path), vault_root),
     category |-> categorize_from_path(pdf_path),
     tags |-> tags,
     method |-> method]

\* the Markdown document convert_pdf writes: frontmatter (category, tags, pdf_path,
\* converted_date), then the text the strategy extracted
document(pdf_path, c, now, method, tags) ==
    [category |-> categorize_from_path(pdf_path),
     tags |-> tags,
     pdf_path |-> relative_to(pdf_path, vault_root),
     converted_date |-> now,
     text_of |-> c,
     method |-> method]

\* the store after a success that keeps the record of this path alone
record_success_alone(td, pdf_str, rec) ==
    [processed |-> Put(<<>>, pdf_str, rec),
     failed |-> <<>>]

\* the store after a success that leaves a failed entry of the path in place
record_success_keeping_failed(td, pdf_str, rec) ==
    [processed |-> Put(td.processed, pdf_str, rec),
     failed |-> td.failed]

\* the store after a success: the record stored, a failed entry removed
record_success(td, pdf_str, rec) ==
    [processed |-> Put(td.processed, pdf_str, rec),
     failed |-> Del(td.failed, pdf_str)]

\* the store after the except branch recorded the failure
record_failure(td, pdf_str, error, now) ==
    [td EXCEPT !.failed = Put(@, pdf_str, [error |-> error, timestamp |-> now])]

----------------------------------------------------------------------------
(* convert_pdf *)

\* what is observed of a call: its arguments, what the path's file, records and
\* output were when it began, what the file holds when the strategies read it
\* (extracted) and when the record's fingerprint is computed (hashed), and
\* (filled in by the call) what it did
Observation(pdf_path, force) ==
    LET key == IF is_relative_to(pdf_path, vault_root)
               THEN relative_to(pdf_path, vault_root) ELSE pdf_path
    IN  [op |-> "convert_pdf", path |-> pdf_path, force |-> force,
         content |-> files[pdf_path],
         extracted |-> files[pdf_path],
         hashed |-> files[pdf_path],
         pre_processed |-> Entry(sub_map(tracking_data, "processed"), key),
         pre_failed |-> Entry(sub_map(tracking_data, "failed"), key),
         pre_md |-> md[md_path_of(pdf_path)],
         decision |-> "none", reason |-> "none", calls |-> <<>>,
         primary |-> NotCalled, secondary |-> NotCalled,
         error |-> NoError, failed_at |-> "none", ret |-> "none"]

NoCall(op) ==
    [op |-> op, path |-> <<>>, force |-> FALSE, content |-> Good,
     extracted |-> Good, hashed |-> Good,
     pre_processed |-> NoEntry, pre_failed |-> NoEntry, pre_md |-> NoFile,
     decision |-> "none", reason |-> "none", calls |-> <<>>,
     primary |-> NotCalled, secondary |-> NotCalled,
     error |-> NoError, failed_at |-> "none", ret |-> "none"]

\* the exception caught by "except Exception as e"
Caught(obs, stage, error) == [obs EXCEPT !.failed_at = stage, !.error = error]

\* the except branch: with the store td in memory and tf on disk, record the
\* failure and save; relative_to, the subscript ["failed"] or the save may raise
\* out of convert_pdf
except_handler(obs, td, tf, n) ==
    IF ~is_relative_to(obs.path, vault_root) \/ ~has_sub_map(td, "failed")
    THEN /\ tracking_data' = td
         /\ tracking_file' = tf
         /\ faults' = n
         /\ last' = [obs EXCEPT !.ret = "raise"]
    ELSE LET td2 == record_failure(td, relative_to(obs.path, vault_root),
                                   obs.error, clock)
         IN  /\ tracking_data' = td2
             /\ \E w \in WriteOutcomes(n) :
                  /\ tracking_file' = written(tf, json_dump(td2), w)
                  /\ faults' = n + Fault(w)
                  /\ last' = [obs EXCEPT !.ret = IF w = "ok" THEN "False" ELSE "raise"]

\* the answers the LlamaParse service can give to this call (one, unused, when
\* the chain does not call it)
LlamaAnswers(c, parser) ==
    IF "llamaparse" \in {extract(c, parser, LlamaRaises).calls[i] :
                           i \in 1..Len(extract(c, parser, LlamaRaises).calls)}
    THEN LlamaOutcomes ELSE {LlamaRaises}

\* the try block of convert_pdf: the strategies read the file at lines 358 and
\* 366 (obs.extracted), the fingerprint reads it again at line 403 (obs.hashed)
attempt(obs) ==
    /\ clock < MaxClock
    /\ clock' = clock + 1
    /\ \E lp \in LlamaAnswers(obs.extracted, llamaparse_parser) :
         LET ex == extract(obs.extracted, llamaparse_parser, lp)
             obs1 == [obs EXCEPT !.calls = ex.calls, !.primary = ex.primary,
                                 !.secondary = ex.secondary]
             out == md_path_of(obs.path)
         IN  IF ~ex.result.ok
             THEN /\ md' = md
                  /\ except_handler(Caught(obs1, "extraction", ex.result.error),
                                    tracking_data, tracking_file, faults)
             ELSE IF ~is_relative_to(obs.path, vault_root)
             THEN /\ md' = md
                  /\ except_handler(
                        Caught(obs1, "rendering", ErrorMsg("not in the subpath", 0)),
                        tracking_data, tracking_file, faults)
             ELSE \E tags \in generate_tags(obs.path, obs.extracted.words,
                                              categorize_from_path(obs.path)) :
                  \E w \in WriteOutcomes(faults) :
                  /\ md' = [md EXCEPT ![out] =
                              written(@, document(obs.path, obs.extracted, clock,
                                                  ex.result.method, tags), w)]
                  /\ IF w # "ok"
                     THEN except_handler(
                            Caught(obs1, "md_write", ErrorMsg("cannot write the output", 0)),
                            tracking_data, tracking_file, faults + 1)
                     ELSE \E r \in ReadOutcomes(faults) :
                          IF r # "ok"
                          THEN except_handler(
                                 Caught(obs1, "hash", ErrorMsg("cannot read the input", 0)),
                                 tracking_data, tracking_file, faults + 1)
                          ELSE IF ~has_sub_map(tracking_data, "processed")
                          THEN except_handler(
                                 Caught(obs1, "record", ErrorMsg("no sub-map 'processed'", 0)),
                                 tracking_data, tracking_file, faults)
                          ELSE IF ~has_sub_map(tracking_data, "failed")
                          THEN except_handler(
                                 Caught(obs1, "record", ErrorMsg("no sub-map 'failed'", 0)),
                                 [tracking_data EXCEPT !.processed =
                                    Put(@, relative_to(obs.path, vault_root),
                                        processed_record(obs.path, obs.hashed, clock,
                                                         ex.result.method, tags))],
                                 tracking_file, faults)
                          ELSE LET td1 == record_success(
                                            tracking_data,
                                            relative_to(obs.path, vault_root),
                                            processed_record(obs.path, obs.hashed, clock,
                                                             ex.result.method, tags))
                               IN  \E s \in WriteOutcomes(faults) :
                                     IF s = "ok"
                                     THEN /\ tracking_data' = td1
                                          /\ tracking_file' = json_dump(td1)
                                          /\ faults' = faults
                                          /\ last' = [obs1 EXCEPT !.ret = "True"]
                                     ELSE except_handler(
                                            Caught(obs1, "save",
                                                   ErrorMsg("cannot write the tracking file", 0)),
                                            td1, written(tracking_file, json_dump(td1), s),
                                            faults + 1)

\* a call that ends before the try block: nothing but the observation changes
ends_early(obs, n) ==
    /\ last' = obs
    /\ faults' = n
    /\ UNCHANGED <<md, tracking_data, tracking_file, clock>>

\* the in-vault test of convert_pdf
in_vault(pdf_path) == startswith(Str(pdf_path), Str(vault_root))

\* convert_pdf taking the skip decision whether forced or not
convert_ignoring_force(obs) ==
    IF ~in_vault(obs.path)
        THEN ends_early([obs EXCEPT !.decision = "reject", !.ret = "False"], faults)
        ELSE IF ~is_relative_to(obs.path, vault_root)
        THEN ends_early([Caught(obs, "decision", ErrorMsg("not in the subpath", 0))
                           EXCEPT !.decision = "raise", !.ret = "raise"], faults)
        ELSE \E r \in ReadOutcomes(faults) :
             IF r # "ok"
             THEN ends_early([Caught(obs, "decision", ErrorMsg("cannot read the input", 0))
                                EXCEPT !.decision = "raise", !.ret = "raise"], faults + 1)
             ELSE IF \/ ~has_sub_map(tracking_data, "processed")
                     \/ /\ relative_to(obs.path, vault_root)
                              \notin DOMAIN tracking_data.processed
                        /\ ~has_sub_map(tracking_data, "failed")
             THEN ends_early([Caught(obs, "decision", ErrorMsg("no such sub-map", 0))
                                EXCEPT !.decision = "raise", !.ret = "raise"], faults)
             ELSE LET d == should_process(tracking_data,
                                          relative_to(obs.path, vault_root),
                                          md5(obs.content))
                  IN  IF ~d.process
                      THEN ends_early([obs EXCEPT !.decision = "skip",
                                                  !.reason = d.reason, !.ret = "False"],
                                      faults)
                      ELSE attempt([obs EXCEPT !.decision = "process",
                                               !.reason = d.reason])

\* convert_pdf from its in-vault test on, obs holding its arguments and what the
\* file of the path holds at each of the three times the call reads it
convert(obs) ==
    IF ~in_vault(obs.path)
        THEN ends_early([obs EXCEPT !.decision = "reject", !.ret = "False"], faults)
        ELSE IF obs.force
        THEN attempt([obs EXCEPT !.decision = "process", !.reason = "forced"])
        ELSE IF ~is_relative_to(obs.path, vault_root)
        THEN ends_early([Caught(obs, "decision", ErrorMsg("not in the subpath", 0))
                           EXCEPT !.decision = "raise", !.ret = "raise"], faults)
        ELSE \E r \in ReadOutcomes(faults) :
             IF r # "ok"
             THEN ends_early([Caught(obs, "decision", ErrorMsg("cannot read the input", 0))
                                EXCEPT !.decision = "raise", !.ret = "raise"], faults + 1)
             ELSE IF \/ ~has_sub_map(tracking_data, "processed")
                     \/ /\ relative_to(obs.path, vault_root)
                              \notin DOMAIN tracking_data.processed
                        /\ ~has_sub_map(tracking_data, "failed")
             THEN ends_early([Caught(obs, "decision", ErrorMsg("no such sub-map", 0))
                                EXCEPT !.decision = "raise", !.ret = "raise"], faults)
             ELSE LET d == should_process(tracking_data,
                                          relative_to(obs.path, vault_root),
                                          md5(obs.content))
                  IN  IF ~d.process
                      THEN ends_early([obs EXCEPT !.decision = "skip",
                                                  !.reason = d.reason, !.ret = "False"],
                                      faults)
                      ELSE attempt([obs EXCEPT !.decision = "process",
                                               !.reason = d.reason])

\* convert_pdf(pdf_path, force), the file not being rewritten during the call
convert_pdf(pdf_path, force) == convert(Observation(pdf_path, force))

----------------------------------------------------------------------------
(* scan_vault *)

\* the file name matches "*.pdf"
is_pdf(path) == endswith(Chars[path[Len(path)]], <<".", "p", "d", "f">>)

\* self.vault_root.rglob("*.pdf")
rglob_pdf ==
    {p \in DOMAIN files :
        is_relative_to(p, vault_root) /\ Len(p) > Len(vault_root) /\ is_pdf(p)}

\* any(skip_dir in pdf_path.parts for skip_dir in self.skip_dirs)
in_skip_dir(pdf_path) ==
    \E skip_dir \in skip_dirs : \E i \in 1..Len(pdf_path) : pdf_path[i] = skip_dir

\* the orders in which rglob may yield a set of paths: it yields the matches of a
\* directory before it walks the subdirectories, which the OS lists in any order
Orders(S) ==
    {q \in [1..Cardinality(S) -> S] :
        /\ \A x \in S : \E i \in DOMAIN q : q[i] = x
        /\ \A i, j \in DOMAIN q :
              (/\ parent(q[i]) # parent(q[j])
               /\ is_relative_to(parent(q[j]), parent(q[i]))) => i < j}

ZeroStats == [total |-> 0, processed |-> 0, skipped |-> 0, failed |-> 0]

\* the loop body's bookkeeping, convert_pdf having returned success
count(stats, success, force) ==
    LET t == [stats EXCEPT !.total = @ + 1]
    IN  IF success THEN [t EXCEPT !.processed = @ + 1]
        ELSE IF ~force THEN [t EXCEPT !.skipped = @ + 1]
        ELSE [t EXCEPT !.failed = @ + 1]

\* what the observed call did to the document: the tally the counts are to equal
tally(truth, obs) ==
    IF obs.ret = "True" THEN [truth EXCEPT !.total = @ + 1, !.processed = @ + 1]
    ELSE IF obs.decision = "skip" THEN [truth EXCEPT !.total = @ + 1, !.skipped = @ + 1]
    ELSE [truth EXCEPT !.total = @ + 1, !.failed = @ + 1]

Idle == [pc |-> "idle", force |-> FALSE, todo |-> <<>>, done |-> <<>>,
         stats |-> ZeroStats, truth |-> ZeroStats]

\* migrate_qdrant_to_cloud is not run
NoMigration ==
    /\ local_client = <<>>
    /\ cloud_client = <<>>
    /\ migration = [pc |-> "not run"]

\* the state of the converter, which migrate_to_qdrant_cloud.py does not touch
converter_vars ==
    <<vault_root, files, md, tracking_data, tracking_file, llamaparse_parser, clock, scan,
      last>>

----------------------------------------------------------------------------
(* Actions *)

Init ==
    /\ files \in {f \in [AllPaths -> MainContents] :
                    /\ f[PathB] = Good
                    /\ f[PathG] = Good
                    /\ f[PathS] = Good
                    /\ f[PathO] = Good
                    /\ f[PathW] = Good}
    /\ md = [p \in {md_path_of(q) : q \in AllPaths} |-> NoFile]
    /\ vault_root = Vault
    /\ NoMigration
    /\ client = <<>>
    /\ tracking_data = EmptyStore
    /\ tracking_file = NoFile
    /\ llamaparse_parser \in BOOLEAN
    /\ clock = 0
    /\ faults = 0
    /\ scan = Idle
    /\ last = NoCall("init")

\* another actor rewrites a PDF of the vault between two calls of convert_pdf. A
\* scan visits a file once, so a rewrite between two calls of a scan has the
\* effect of the same rewrite before the scan (file not yet visited) or after it
\* (file visited); rewrites during a call are those of ConvertPdfRewritten
ModifyFile ==
    \E p \in Modifiable, c \in MainContents :
        /\ scan.pc = "idle"
        /\ c # files[p]
        /\ files' = [files EXCEPT ![p] = c]
        /\ last' = NoCall("modify")
        /\ UNCHANGED <<md, tracking_data, tracking_file, llamaparse_parser, clock, faults,
                       scan>>
        /\ UNCHANGED <<vault_root, migration_vars, client>>

\* main() with --file: one convert_pdf call
ConvertPdf ==
    \E p \in DirectPaths, force \in BOOLEAN :
        /\ scan.pc = "idle"
        /\ convert_pdf(p, force)
        /\ UNCHANGED <<files, llamaparse_parser, scan>>
        /\ UNCHANGED <<vault_root, migration_vars, client>>

\* scan_vault(force) begins: the PDFs under the root, in the order rglob lists them
ScanStart ==
    \E force \in BOOLEAN, order \in Orders(rglob_pdf) :
        /\ scan.pc = "idle"
        /\ scan' = [Idle EXCEPT !.pc = "running", !.force = force, !.todo = order]
        /\ last' = NoCall("scan_vault")
        /\ UNCHANGED <<files, md, tracking_data, tracking_file, llamaparse_parser, clock,
                       faults>>
        /\ UNCHANGED <<vault_root, migration_vars, client>>

\* the state of the scan after its loop handled the head of todo
advance(sc) ==
    LET rest == Tail(sc.todo)
    IN  [sc EXCEPT !.todo = rest,
                   !.pc = IF rest = <<>> THEN "done" ELSE "running"]

\* one iteration of scan_vault's loop over a PDF in an excluded directory
ScanSkipDir ==
    /\ scan.pc = "running"
    /\ in_skip_dir(Head(scan.todo))
    /\ scan' = advance(scan)
    /\ last' = NoCall("scan_vault")
    /\ UNCHANGED <<files, md, tracking_data, tracking_file, llamaparse_parser, clock,
                   faults>>
    /\ UNCHANGED <<vault_root, migration_vars, client>>

\* one iteration of scan_vault's loop: convert the PDF and count; an exception
\* of convert_pdf leaves scan_vault
ScanStep ==
    /\ scan.pc = "running"
    /\ ~in_skip_dir(Head(scan.todo))
    /\ convert_pdf(Head(scan.todo), scan.force)
    /\ scan' = IF last'.ret = "raise"
               THEN [scan EXCEPT !.pc = "raised"]
               ELSE [advance(scan) EXCEPT
                       !.done = Append(@, Head(scan.todo)),
                       !.stats = count(@, last'.ret = "True", scan.force),
                       !.truth = tally(@, last')]
    /\ UNCHANGED <<files, llamaparse_parser>>
    /\ UNCHANGED <<vault_root, migration_vars, client>>

\* scan_vault has returned its counts, or its exception has ended main()
ScanEnd ==
    /\ scan.pc \in {"done", "raised"}
    /\ scan' = Idle
    /\ last' = NoCall("scan_vault")
    /\ UNCHANGED <<files, md, tracking_data, tracking_file, llamaparse_parser, clock,
                   faults>>
    /\ UNCHANGED <<vault_root, migration_vars, client>>

Next == ModifyFile \/ ConvertPdf \/ ScanStart \/ ScanSkipDir \/ ScanStep \/ ScanEnd

Spec == Init /\ [][Next]_vars

\* the same program on a file system where no read or write fails: the I/O
\* errors the model allows have all happened
ReliableInit ==
    /\ files \in {f \in [AllPaths -> MainContents] :
                    /\ f[PathB] = Good
                    /\ f[PathG] = Good
                    /\ f[PathS] = Good
                    /\ f[PathO] = Good
                    /\ f[PathW] = Good}
    /\ md = [p \in {md_path_of(q) : q \in AllPaths} |-> NoFile]
    /\ vault_root = Vault
    /\ NoMigration
    /\ client = <<>>
    /\ tracking_data = EmptyStore
    /\ tracking_file = NoFile
    /\ llamaparse_parser \in BOOLEAN
    /\ clock = 0
    /\ faults = MaxFaults
    /\ scan = Idle
    /\ last = NoCall("init")

SpecReliable == ReliableInit /\ [][Next]_vars

----------------------------------------------------------------------------
(* The converter constructed on one of several vaults *)

\* the vaults: /v, and /.git/v, a vault kept below a directory that has one of
\* the excluded names
Roots == {Vault, <<"dotgit", "v">>}

RootsInit ==
    /\ files \in {f \in [AllPaths -> MainContents] :
                    /\ f[PathB] = Good
                    /\ f[PathG] = Good
                    /\ f[PathS] = Good
                    /\ f[PathO] = Good
                    /\ f[PathW] = Good}
    /\ md = [p \in {md_path_of(q) : q \in AllPaths} |-> NoFile]
    /\ vault_root \in Roots
    /\ NoMigration
    /\ client = <<>>
    /\ tracking_data = EmptyStore
    /\ tracking_file = NoFile
    /\ llamaparse_parser \in BOOLEAN
    /\ clock = 0
    /\ faults = MaxFaults
    /\ scan = Idle
    /\ last = NoCall("init")

SpecRoots == RootsInit /\ [][Next]_vars

----------------------------------------------------------------------------
(* Interruption of a scan, and the converter constructed afterwards *)

\* what the converter constructed after an interruption is compared with: the
\* store the interrupted process held when it began the interrupted document
Restarted(recorded, pdf_path) ==
    [op |-> "__init__", recorded |-> recorded, interrupted |-> pdf_path]

\* the process running scan_vault is killed while it handles a document: inside
\* _save_tracking_data, after open(.., 'w') emptied the tracking file and before
\* json.dump completed, or at a point where the tracking file is closed. The
\* memory of the process is lost; tracking_data is left as it was before the
\* document, to be compared with what the next converter loads
Interrupt ==
    /\ scan.pc = "running"
    /\ ~in_skip_dir(Head(scan.todo))
    /\ \E point \in {"in _save_tracking_data", "outside _save_tracking_data"} :
         LET pdf_path == Head(scan.todo)
             out == md_path_of(pdf_path)
         IN  IF point = "in _save_tracking_data"
             THEN /\ clock < MaxClock
                  /\ \/ scan.force
                     \/ should_process(tracking_data, relative_to(pdf_path, vault_root),
                                       md5(files[pdf_path])).process
                  /\ clock' = clock + 1
                  /\ \E lp \in LlamaAnswers(files[pdf_path], llamaparse_parser) :
                       LET ex == extract(files[pdf_path], llamaparse_parser, lp)
                       IN  \E tags \in generate_tags(pdf_path, files[pdf_path].words,
                                                      categorize_from_path(pdf_path)) :
                             md' = IF ex.result.ok
                                   THEN [md EXCEPT ![out] =
                                           document(pdf_path, files[pdf_path], clock,
                                                    ex.result.method, tags)]
                                   ELSE md
                  /\ tracking_file' = PartialFile
             ELSE UNCHANGED <<md, tracking_file, clock>>
    /\ scan' = [scan EXCEPT !.pc = "killed"]
    /\ last' = NoCall("killed")
    /\ UNCHANGED <<files, tracking_data, llamaparse_parser, faults>>
    /\ UNCHANGED <<vault_root, migration_vars, client>>

\* ObsidianPDFConverter(vault_root) is constructed again: __init__ loads the store
Restart ==
    /\ scan.pc = "killed"
    /\ tracking_data' = load_tracking_data(tracking_file)
    /\ scan' = Idle
    /\ last' = Restarted(tracking_data, Head(scan.todo))
    /\ UNCHANGED <<files, md, tracking_file, llamaparse_parser, clock, faults>>
    /\ UNCHANGED <<vault_root, migration_vars, client>>

NextCrash == Next \/ Interrupt \/ Restart

SpecCrash == ReliableInit /\ [][NextCrash]_vars

----------------------------------------------------------------------------
(* The converter constructed on a tracking file it did not write *)

\* valid JSON texts that are not a store: {}, {"processed": {}}, {"failed": {}}, []
NoSubMaps == <<>>
OnlyProcessed == [processed |-> <<>>]
OnlyFailed == [failed |-> <<>>]
JsonArray == [array |-> <<>>]

\* what __init__ may find at self.tracking_file
PersistedStructures ==
    {NoFile, PartialFile, json_dump(EmptyStore), json_dump(NoSubMaps),
     json_dump(OnlyProcessed), json_dump(OnlyFailed), json_dump(JsonArray)}

\* the found text is that of a store with both sub-maps
is_store_text(tf) ==
    /\ tf \notin {NoFile, PartialFile}
    /\ has_sub_map(tf.json, "processed")
    /\ has_sub_map(tf.json, "failed")

\* the state after ObsidianPDFConverter(vault_root) was constructed on such a file
LoadInit ==
    /\ files \in {f \in [AllPaths -> MainContents] :
                    /\ f[PathB] = Good
                    /\ f[PathG] = Good
                    /\ f[PathS] = Good
                    /\ f[PathO] = Good
                    /\ f[PathW] = Good}
    /\ md = [p \in {md_path_of(q) : q \in AllPaths} |-> NoFile]
    /\ vault_root = Vault
    /\ NoMigration
    /\ client = <<>>
    /\ tracking_file \in PersistedStructures
    /\ tracking_data = load_tracking_data(tracking_file)
    /\ llamaparse_parser \in BOOLEAN
    /\ clock = 0
    /\ faults = MaxFaults
    /\ scan = Idle
    /\ last = [NoCall("init") EXCEPT !.ret = "None"]

\* print_stats(): it reads the sizes of both sub-maps and lists the failed entries
PrintStats ==
    /\ scan.pc = "idle"
    /\ last' = [NoCall("print_stats") EXCEPT
                  !.ret = IF /\ has_sub_map(tracking_data, "processed")
                             /\ has_sub_map(tracking_data, "failed")
                          THEN "None" ELSE "raise"]
    /\ UNCHANGED <<files, md, tracking_data, tracking_file, llamaparse_parser, clock,
                   faults, scan>>
    /\ UNCHANGED <<vault_root, migration_vars, client>>

NextLoad == Next \/ PrintStats

SpecLoad == LoadInit /\ [][NextLoad]_vars

----------------------------------------------------------------------------
(* convert_pdf while another actor rewrites the file *)

\* main() with --file while another actor rewrites the PDF: the skip decision
\* (line 119) reads what the file held when the call began, the strategies (lines
\* 358, 366) read what the first rewrite left, the fingerprint of the record
\* (line 403) reads what the second rewrite left, which is what the file holds
\* when the call ends
ConvertPdfRewritten ==
    \E p \in Modifiable, force \in BOOLEAN, c2 \in MainContents, c3 \in MainContents :
        /\ scan.pc = "idle"
        /\ c2 # files[p] \/ c3 # c2
        /\ convert([Observation(p, force) EXCEPT !.extracted = c2, !.hashed = c3])
        /\ files' = [files EXCEPT ![p] = c3]
        /\ UNCHANGED <<llamaparse_parser, scan>>
        /\ UNCHANGED <<vault_root, migration_vars, client>>

NextRace == Next \/ ConvertPdfRewritten

SpecRace == ReliableInit /\ [][NextRace]_vars

----------------------------------------------------------------------------
(* The quality gate on its own: one convert_pdf of a PDF whose pages are drawn *)
(* from all page sequences of bounded length                                   *)

\* the lengths a page's text is drawn from
PageLens == {0, 10, 25, 40, 100}

RECURSIVE PageSeqs(_)
PageSeqs(n) ==
    IF n = 0 THEN {<<>>}
    ELSE PageSeqs(n - 1) \cup
         {Append(q, l) : q \in {r \in PageSeqs(n - 1) : Len(r) = n - 1}, l \in PageLens}

GateInit ==
    /\ files \in {[p \in AllPaths |-> IF p = PathA THEN Content(FALSE, pages) ELSE Good] :
                    pages \in PageSeqs(MaxPages)}
    /\ md = [p \in {md_path_of(q) : q \in AllPaths} |-> NoFile]
    /\ vault_root = Vault
    /\ NoMigration
    /\ client = <<>>
    /\ tracking_data = EmptyStore
    /\ tracking_file = NoFile
    /\ llamaparse_parser \in BOOLEAN
    /\ clock = 0
    /\ faults = 0
    /\ scan = Idle
    /\ last = NoCall("init")

GateConvert ==
    /\ last.op = "init"
    /\ \E force \in BOOLEAN : convert_pdf(PathA, force)
    /\ UNCHANGED <<files, llamaparse_parser, scan>>
    /\ UNCHANGED <<vault_root, migration_vars, client>>

SpecGate == GateInit /\ [][GateConvert]_vars

----------------------------------------------------------------------------
(* Classification and tags on their own: _categorize_from_path and             *)
(* _generate_tags applied to paths, texts and categories drawn from bounded    *)
(* sets                                                                        *)

\* the folder names the paths are made of
TagFolders ==
    {"Knowledge", "Founders", "Books", "Admin", "my_files", "Invest_Like_The_Best",
     "Barcodes"}

RECURSIVE FolderSeqs(_)
FolderSeqs(n) ==
    IF n = 0 THEN {<<>>}
    ELSE FolderSeqs(n - 1) \cup
         {Append(q, d) : q \in {r \in FolderSeqs(n - 1) : Len(r) = n - 1}, d \in TagFolders}

\* the texts: none, one naming a figure, one with a figure's name inside a word,
\* one with no figure
Texts == {<<>>, TextJobs, TextMusket, TextMemo}

\* the categories a caller can pass to _generate_tags
Categories ==
    {category_patterns[i].category : i \in 1..Len(category_patterns)} \cup {general}

\* the arguments of the calls to come
Arguments(pdf_path, text_content) ==
    [op |-> "arguments", path |-> pdf_path, text |-> text_content]

TagsInit ==
    /\ files = [p \in AllPaths |-> Good]
    /\ md = [p \in {md_path_of(q) : q \in AllPaths} |-> NoFile]
    /\ vault_root = Vault
    /\ NoMigration
    /\ client = <<>>
    /\ tracking_data = EmptyStore
    /\ tracking_file = NoFile
    /\ llamaparse_parser = FALSE
    /\ clock = 0
    /\ faults = 0
    /\ scan = Idle
    /\ last \in {Arguments(Vault \o folders \o <<"a_pdf">>, text_content) :
                    folders \in FolderSeqs(MaxDepth), text_content \in Texts}

\* a call of _categorize_from_path with the arguments drawn
Categorize ==
    /\ last.op = "arguments"
    /\ last' = [op |-> "_categorize_from_path", path |-> last.path, text |-> last.text,
                category |-> categorize_from_path(last.path)]
    /\ UNCHANGED <<files, md, tracking_data, tracking_file, llamaparse_parser, clock,
                   faults, scan>>
    /\ UNCHANGED <<vault_root, migration_vars, client>>

\* a call of _generate_tags with the arguments drawn and any category
GenerateTags ==
    /\ last.op = "arguments"
    /\ \E category \in Categories :
         \E tags \in generate_tags(last.path, last.text, category) :
            last' = [op |-> "_generate_tags", path |-> last.path, text |-> last.text,
                     category |-> category, tags |-> tags]
    /\ UNCHANGED <<files, md, tracking_data, tracking_file, llamaparse_parser, clock,
                   faults, scan>>
    /\ UNCHANGED <<vault_root, migration_vars, client>>

NextTags == Categorize \/ GenerateTags

SpecTags == TagsInit /\ [][NextTags]_vars

----------------------------------------------------------------------------
(* migrate_to_qdrant_cloud.py: migrate_qdrant_to_cloud                         *)
(*                                                                             *)
(* A Qdrant storage is a function from collection names to collections; a      *)
(* collection has the size and the distance of its vectors and a set of        *)
(* points. Calls to the local storage succeed; a call to Qdrant Cloud can      *)
(* raise.                                                                      *)

batch_size == 100

\* a stored point
Point(i) == [id |-> i, vector |-> <<i, i>>, payload |-> [source |-> i]]

Collection(size, distance, n) ==
    [size |-> size, distance |-> distance, points |-> {Point(i) : i \in 1..n}]

\* the local storages: each of two collections is absent, empty, small, or larger
\* than a batch
LocalStorages ==
    {[name \in names |->
        IF name = "docs" THEN Collection(384, "Cosine", counts[name])
                         ELSE Collection(768, "Dot", counts[name])] :
       names \in SUBSET {"docs", "notes"}, counts \in [{"docs", "notes"} -> {0, 3, MaxPoints}]}

\* Qdrant Cloud before the run: empty, or holding a collection "docs" of an earlier
\* run with another configuration and a point the local storage does not have
CloudStorages ==
    {<<>>,
     [name \in {"docs"} |->
        [size |-> 128, distance |-> "Euclid", points |-> {Point(MaxPoints + 1)}]]}

\* how a call to Qdrant Cloud can end, n errors having happened
CloudOutcomes(n) == IF n < MaxFaults THEN {"ok", "error"} ELSE {"ok"}

\* local_client.scroll returning the records after the one at offset
scroll_after_offset(points, limit, offset) ==
    LET from == IF offset = {} THEN points
                ELSE {r \in points : \A o \in offset : r.id > o}
        records == {r \in from : Cardinality({q \in from : q.id < r.id}) < limit}
        rest == from \ records
    IN  [records |-> records,
         next_offset |-> {r.id : r \in {q \in rest : \A x \in rest : q.id <= x.id}}]

\* local_client.scroll(limit, offset): the records from offset on, by id, at most
\* limit of them, and the id of the record after them (none: the empty set)
scroll(points, limit, offset) ==
    LET from == IF offset = {} THEN points
                ELSE {r \in points : \A o \in offset : r.id >= o}
        records == {r \in from : Cardinality({q \in from : q.id < r.id}) < limit}
        rest == from \ records
    IN  [records |-> records,
         next_offset |-> {r.id : r \in {q \in rest : \A x \in rest : q.id <= x.id}}]

\* PointStruct(id=record.id, vector=record.vector, payload=record.payload)
PointStruct(record) ==
    [id |-> record.id, vector |-> record.vector, payload |-> record.payload]

\* cloud_client.upsert(points): the points stored under their ids
upsert(collection, points) ==
    [collection EXCEPT !.points =
        {r \in @ : \A x \in points : x.id # r.id} \cup points]

\* cloud_client.get_collection(name) of line 94: what it answers
get_collection(cloud, collection_name, outcome) ==
    IF outcome # "ok" THEN "error"
    ELSE IF collection_name \in DOMAIN cloud THEN "found" ELSE "not found"

\* the inner try of lines 93-98 letting an exception other than not-found leave it
delete_existing_reraising(cloud, collection_name, lookup, delete) ==
    [cloud  |-> IF lookup = "found" /\ delete = "ok"
                THEN Del(cloud, collection_name) ELSE cloud,
     raised |-> lookup = "error" \/ delete = "error"]

\* the inner try of lines 93-98: the collection is deleted if get_collection
\* found it; whatever the two calls raise is passed, nothing leaves the block
delete_existing(cloud, collection_name, lookup, delete) ==
    [cloud  |-> IF lookup = "found" /\ delete = "ok"
                THEN Del(cloud, collection_name) ELSE cloud,
     raised |-> FALSE]

\* what is observed of an iteration of the for loop: the collection, how the
\* calls before the upload ended, the batches upsert stored, how the while loop
\* was left
Iteration(collection_name) ==
    [collection |-> collection_name, lookup |-> "not called", delete |-> "not called",
     create |-> "not called", upserted |-> <<>>, loop |-> "not entered"]

\* the for loop goes on to the next collection, or ends
next_collection(m) ==
    [m EXCEPT !.todo = Tail(@),
              !.pc = IF Tail(m.todo) = <<>> THEN "summary" ELSE "loop"]

\* the state before migrate_qdrant_to_cloud is called, n calls having raised
MigrationBegins(n) ==
    /\ faults = n
    /\ files = [p \in AllPaths |-> Good]
    /\ md = [p \in {md_path_of(q) : q \in AllPaths} |-> NoFile]
    /\ vault_root = Vault
    /\ tracking_data = EmptyStore
    /\ tracking_file = NoFile
    /\ llamaparse_parser = FALSE
    /\ clock = 0
    /\ scan = Idle
    /\ last = NoCall("init")
    /\ client = <<>>
    /\ local_client \in LocalStorages
    /\ cloud_client \in CloudStorages
    /\ \E credentials \in BOOLEAN :
         migration = [pc |-> "not run", credentials |-> credentials, todo |-> <<>>,
                      offset |-> {}, migrated_count |-> 0, ret |-> "none",
                      iteration |-> Iteration("none")]

\* migrate_qdrant_to_cloud up to the for loop: the credentials, the two clients,
\* the list of the local collections
MigrateStart ==
    /\ migration.pc = "not run"
    /\ \E connect \in CloudOutcomes(faults) :
         /\ faults' = faults + Fault(connect)
         /\ IF ~migration.credentials \/ connect # "ok"
            THEN migration' = [migration EXCEPT !.pc = "returned", !.ret = "False"]
            ELSE IF DOMAIN local_client = {}
            THEN migration' = [migration EXCEPT !.pc = "returned", !.ret = "True"]
            ELSE \E local_collections \in listings(DOMAIN local_client) :
                    migration' = [migration EXCEPT !.pc = "loop",
                                                   !.todo = local_collections]
    /\ UNCHANGED <<local_client, cloud_client, converter_vars, client>>

\* an iteration of the for loop up to the upload: an empty collection is passed
\* over; else the collection is looked up in the cloud and deleted if found, any
\* exception of the two calls being passed, and created anew; an exception of
\* create_collection ends the iteration
MigrateBegin ==
    /\ migration.pc = "loop"
    /\ LET collection_name == Head(migration.todo)
           local_info == local_client[collection_name]
       IN  IF Cardinality(local_info.points) = 0
           THEN /\ migration' = [next_collection(migration) EXCEPT
                                   !.iteration = Iteration(collection_name)]
                /\ UNCHANGED <<cloud_client, faults>>
           ELSE \E called \in CloudOutcomes(faults) :
                  LET lookup == get_collection(cloud_client, collection_name, called)
                  IN  \E delete \in IF lookup = "found"
                                    THEN CloudOutcomes(faults + Fault(called))
                                    ELSE {"not called"} :
                        LET inner == delete_existing(cloud_client, collection_name,
                                                     lookup, delete)
                            errors == faults + Fault(called)
                                        + (IF delete = "error" THEN 1 ELSE 0)
                            begun == [Iteration(collection_name) EXCEPT
                                        !.lookup = lookup, !.delete = delete]
                        IN  IF inner.raised
                            THEN /\ faults' = errors
                                 /\ cloud_client' = inner.cloud
                                 /\ migration' = [next_collection(migration) EXCEPT
                                                    !.iteration = begun]
                            ELSE \E create \in CloudOutcomes(errors) :
                                 /\ faults' = errors + Fault(create)
                                 /\ IF /\ create = "ok"
                                       /\ collection_name \notin DOMAIN inner.cloud
                                    THEN /\ cloud_client' =
                                              Put(inner.cloud, collection_name,
                                                  [size |-> local_info.size,
                                                   distance |-> local_info.distance,
                                                   points |-> {}])
                                         /\ migration' =
                                              [migration EXCEPT
                                                 !.pc = "upload",
                                                 !.offset = {},
                                                 !.migrated_count = 0,
                                                 !.iteration =
                                                    [begun EXCEPT !.create = "ok",
                                                                  !.loop = "running"]]
                                    ELSE /\ cloud_client' = inner.cloud
                                         /\ migration' =
                                              [next_collection(migration) EXCEPT
                                                 !.iteration =
                                                    [begun EXCEPT !.create = "error"]]
    /\ UNCHANGED <<local_client, converter_vars, client>>

\* an iteration of the while loop: a batch is read from the local collection and
\* upserted; after the last batch the counts are compared and printed. An
\* exception of upsert, or of the get_collection of the comparison, ends the
\* iteration of the for loop
MigrateBatch ==
    /\ migration.pc = "upload"
    /\ LET collection_name == Head(migration.todo)
           page == scroll(local_client[collection_name].points, batch_size,
                          migration.offset)
           points == {PointStruct(record) : record \in page.records}
       IN  IF page.records = {}
           THEN \E verify \in CloudOutcomes(faults) :
                  /\ faults' = faults + Fault(verify)
                  /\ migration' = [next_collection(migration) EXCEPT
                                     !.iteration.loop = "break"]
                  /\ UNCHANGED cloud_client
           ELSE \E store \in CloudOutcomes(faults) :
                  IF store # "ok"
                  THEN /\ faults' = faults + 1
                       /\ migration' = [next_collection(migration) EXCEPT
                                          !.iteration.loop = "raised"]
                       /\ UNCHANGED cloud_client
                  ELSE /\ cloud_client' =
                            [cloud_client EXCEPT ![collection_name] = upsert(@, points)]
                       /\ IF page.next_offset = {}
                          THEN \E verify \in CloudOutcomes(faults) :
                                 /\ faults' = faults + Fault(verify)
                                 /\ migration' =
                                      [next_collection(migration) EXCEPT
                                         !.migrated_count = @ + Cardinality(page.records),
                                         !.iteration.upserted = Append(@, points),
                                         !.iteration.loop = "break"]
                          ELSE /\ faults' = faults
                               /\ migration' =
                                    [migration EXCEPT
                                       !.migrated_count = @ + Cardinality(page.records),
                                       !.offset = page.next_offset,
                                       !.iteration.upserted = Append(@, points)]
    /\ UNCHANGED <<local_client, converter_vars, client>>

\* the summary after the for loop: the cloud collections are listed, and True is
\* returned unless the listing raises
MigrateSummary ==
    /\ migration.pc = "summary"
    /\ \E list \in CloudOutcomes(faults) :
         /\ faults' = faults + Fault(list)
         /\ migration' = [migration EXCEPT
                            !.pc = "returned",
                            !.ret = IF list = "ok" THEN "True" ELSE "raise"]
    /\ UNCHANGED <<local_client, cloud_client, converter_vars, client>>

NextMigration == MigrateStart \/ MigrateBegin \/ MigrateBatch \/ MigrateSummary

\* the migration with calls to Qdrant Cloud that can raise
MigrationInit == MigrationBegins(0)

SpecMigration == MigrationInit /\ [][NextMigration]_vars

\* the migration with no call raising: the errors the model allows have happened
MigrationReliableInit == MigrationBegins(MaxFaults)

SpecMigrationReliable == MigrationReliableInit /\ [][NextMigration]_vars

\* the migration as the one thread of the script runs it: a step that can be
\* taken is taken
SpecMigrationFair ==
    MigrationInit /\ [][NextMigration]_vars /\ WF_vars(NextMigration)

----------------------------------------------------------------------------
(* qdrant_store.py: QdrantVectorStore                                          *)
(*                                                                             *)
(* The collection of the store is a function from point ids to points, a point *)
(* having the vector and the payload add_documents gave it. A payload, like a  *)
(* metadata dict, is a function from keys to values.                           *)

Docs == {"d1", "d2"}
Ids == {"i1", "i2"}
\* the ids uuid.uuid4() can give
Uuids == {"u1"}
\* the metadata dicts of the callers: one with a key of its own, one with the
\* key "text"
Metadatas == {[category |-> "tech"], [text |-> "mine"]}

\* the lists of at most MaxDocs elements of S
RECURSIVE Lists(_, _)
Lists(S, n) ==
    IF n = 0 THEN {<<>>}
    ELSE Lists(S, n - 1) \cup
         {Append(q, x) : q \in {r \in Lists(S, n - 1) : Len(r) = n - 1}, x \in S}

\* payload.get("text", "")
get_text(payload) == IF "text" \in DOMAIN payload THEN payload["text"] ELSE ""

\* self.client.upsert(points): the points stored one after the other, a later
\* point of an id replacing an earlier one
RECURSIVE upsert_points(_, _)
upsert_points(collection, points) ==
    IF points = <<>> THEN collection
    ELSE upsert_points(
            Put(collection, Head(points).id,
                     [vector |-> Head(points).vector, payload |-> Head(points).payload]),
            Tail(points))

\* self.client.retrieve(ids, with_payload=True): the records of the ids that are
\* stored, one for each, in an order the server chooses
retrieve(collection, ids) ==
    {[i \in DOMAIN order |-> [id |-> order[i], payload |-> collection[order[i]].payload]] :
        order \in listings({ids[i] : i \in DOMAIN ids} \cap DOMAIN collection)}

\* the result of get_by_ids for the records retrieve returned
get_by_ids_result(ids, results) ==
    [ids |-> ids,
     documents |-> [i \in DOMAIN results |-> get_text(results[i].payload)],
     metadatas |-> [i \in DOMAIN results |-> Del(results[i].payload, "text")]]

\* the store constructed on a server without its collection: _ensure_collection
\* creates the collection, empty
StoreInit ==
    /\ client = <<>>
    /\ files = [p \in AllPaths |-> Good]
    /\ md = [p \in {md_path_of(q) : q \in AllPaths} |-> NoFile]
    /\ vault_root = Vault
    /\ NoMigration
    /\ tracking_data = EmptyStore
    /\ tracking_file = NoFile
    /\ llamaparse_parser = FALSE
    /\ clock = 0
    /\ faults = 0
    /\ scan = Idle
    /\ last = [op |-> "__init__"]

\* add_documents(documents, metadatas, ids) with lists of one length; metadatas
\* and ids can be None (given is then not read, and is drawn as one value), and
\* ids that are None become uuids no point has
AddDocuments ==
    \E documents \in Lists(Docs, MaxDocs) :
    \E given \in {q \in Lists(Metadatas, MaxDocs) : Len(q) = Len(documents)} :
    \E metadatas_given \in BOOLEAN :
    \E ids \in {q \in Lists(Ids \cup Uuids, MaxDocs) : Len(q) = Len(documents)} :
    \E ids_given \in BOOLEAN :
        LET n == Len(documents)
            embeddings == [i \in 1..n |-> <<"embedding of", documents[i]>>]
            metadatas == [i \in 1..n |->
                            Put(IF metadatas_given THEN given[i] ELSE <<>>,
                                     "text", documents[i])]
            points == [i \in 1..n |->
                         [id |-> ids[i], vector |-> embeddings[i],
                          payload |-> metadatas[i]]]
        IN  /\ metadatas_given \/ \A i \in 1..n : given[i] = [category |-> "tech"]
            /\ ids_given => \A i \in 1..n : ids[i] \in Ids
            /\ ids_given \/ /\ \A i \in 1..n : ids[i] \in Uuids \ DOMAIN client
                            /\ \A i \in 1..n : \A j \in 1..n : ids[i] = ids[j] => i = j
            /\ client' = upsert_points(client, points)
            /\ last' = [op |-> "add_documents", documents |-> documents,
                        metadatas_given |-> metadatas_given, given |-> given,
                        metadatas |-> metadatas,
                        ids_given |-> ids_given, ids |-> ids]
            /\ UNCHANGED <<files, md, tracking_data, tracking_file, llamaparse_parser,
                           clock, faults, scan, vault_root, migration_vars>>

\* get_by_ids(ids); an add_documents call with these ids, if it came just before, is
\* kept for comparison
GetByIds ==
    \E ids \in Lists(Ids \cup Uuids, MaxDocs) :
    \E results \in retrieve(client, ids) :
        /\ last' = [op |-> "get_by_ids", ids |-> ids,
                    result |-> get_by_ids_result(ids, results),
                    before |-> IF last.op = "add_documents" /\ last.ids = ids
                               THEN last ELSE NoEntry]
        /\ UNCHANGED <<client, files, md, tracking_data, tracking_file, llamaparse_parser,
                       clock, faults, scan, vault_root, migration_vars>>

NextStore == AddDocuments \/ GetByIds

SpecStore == StoreInit /\ [][NextStore]_vars

----------------------------------------------------------------------------
(* Properties *)

\* the state follows a convert_pdf call, which `last` describes
Called == last.op = "convert_pdf"

\* the call entered the try block and called a strategy
Attempted == Called /\ last.calls # <<>>

\* the call computed the fingerprint and took the skip decision
Decided == Called /\ ~last.force /\ last.decision \in {"skip", "process"}

\* the tracking key of the path of the last call (a path under the root)
LastKey == relative_to(last.path, vault_root)

\* the strategies the last call invoked
LastCalls == {last.calls[i] : i \in 1..Len(last.calls)}

\* C1: no path is in both tracking_data["processed"] and tracking_data["failed"]
C1_MutualExclusion ==
    \A k \in DOMAIN tracking_data.processed : k \notin DOMAIN tracking_data.failed

\* C2: a non-forced convert_pdf (alone or in a scan) of a path whose processed
\* record holds the fingerprint of the file's present content skips: it returns
\* False, calls no strategy, and leaves every .md file, the store in memory and
\* the tracking file as they were
C2_Idempotence ==
    [][\A p \in AllPaths :
         (/\ is_relative_to(p, vault_root)
          /\ relative_to(p, vault_root) \in DOMAIN tracking_data.processed
          /\ tracking_data.processed[relative_to(p, vault_root)].hash = md5(files[p])
          /\ last'.op = "convert_pdf"
          /\ last'.path = p
          /\ ~last'.force
          /\ last'.failed_at # "decision")
         => (/\ last'.decision = "skip"
             /\ last'.ret = "False"
             /\ last'.calls = <<>>
             /\ UNCHANGED <<md, tracking_data, tracking_file>>)]_vars

\* C2's case: an unchanged, already converted PDF was skipped, its output in place
C2_SkippedUnchanged ==
    /\ Called
    /\ last.decision = "skip"
    /\ last.pre_processed # NoEntry
    /\ last.pre_processed.hash = md5(last.content)
    /\ md[md_path_of(last.path)] \notin {NoFile, PartialFile}
    /\ tracking_data.processed[LastKey] = last.pre_processed

\* C3: a non-forced convert_pdf of a path whose processed record holds another
\* fingerprint than the file's present content decides to process, with reason
\* "File modified (hash changed)", and runs extraction
C3_FingerprintSensitivity ==
    (/\ Decided
     /\ last.pre_processed # NoEntry
     /\ last.pre_processed.hash # md5(last.content))
    => (/\ last.decision = "process"
        /\ last.reason = "File modified (hash changed)"
        /\ Len(last.calls) >= 1
        /\ last.calls[1] = "pdfplumber")

\* C3's case: a converted PDF was rewritten and converted again
C3_ModifiedReprocessed ==
    /\ Decided
    /\ last.pre_processed # NoEntry
    /\ last.pre_processed.hash # md5(last.content)
    /\ last.ret = "True"
    /\ tracking_data.processed[LastKey].hash = md5(last.content)

\* C4: a non-forced convert_pdf of a path that has a failed record processes it,
\* whatever else the store holds for the path
C4_RetryFailed ==
    (Decided /\ last.pre_failed # NoEntry) => last.decision = "process"

\* the error names the failures of both strategies of the last call
NamesBoth(error) ==
    /\ error.msg = "Both methods failed"
    /\ error.pdfplumber = last.primary.error
    /\ error.LlamaParse = last.secondary.error

\* the primary strategy is called first, and the secondary exactly when the
\* primary failed and a parser is configured
ChainOrder ==
    /\ last.calls[1] = "pdfplumber"
    /\ ("llamaparse" \in LastCalls) <=> (~last.primary.ok /\ llamaparse_parser)
    /\ Len(last.calls) = IF "llamaparse" \in LastCalls THEN 2 ELSE 1

\* the failed record of a call that returned False holds the error it caught
ErrorRecorded ==
    last.ret = "False" => tracking_data.failed[LastKey].error = last.error

\* C5 as claimed: the chain's order, and whenever extraction fails, with the
\* secondary failed or absent, the error names both underlying failures
C5_FallbackChain ==
    Attempted =>
        /\ ChainOrder
        /\ last.failed_at = "extraction" => (NamesBoth(last.error) /\ ErrorRecorded)

\* C5 amended: the chain's order; when extraction fails with a secondary
\* configured the error names both failures, and when none is configured it is
\* the primary strategy's error alone
C5_FallbackChainAmended ==
    Attempted =>
        /\ ChainOrder
        /\ last.failed_at = "extraction" =>
             /\ IF llamaparse_parser
                THEN NamesBoth(last.error)
                ELSE last.error = last.primary.error
             /\ ErrorRecorded

\* C5's case: both strategies were tried and failed, and the failure was recorded
C5_BothFailed ==
    /\ Attempted
    /\ last.calls = <<"pdfplumber", "llamaparse">>
    /\ last.failed_at = "extraction"
    /\ last.ret = "False"
    /\ tracking_data.failed[LastKey].error.msg = "Both methods failed"

\* C6: the primary strategy fails, reporting the extracted length, whenever the
\* text of the pages totals fewer than 100 characters, and passes otherwise
C6_QualityGate ==
    (Attempted /\ ~last.content.malformed) =>
        LET n == SumSeq(last.content.pages)
        IN  /\ n < QualityGate => (~last.primary.ok /\ last.primary.error.len = n)
            /\ n >= QualityGate => last.primary.ok

\* C7: convert_pdf of a path that is not under the vault root returns False: it
\* does not raise, consults no record and calls no strategy
C7_OutsideRoot ==
    (Called /\ ~is_relative_to(last.path, vault_root)) =>
        /\ last.ret = "False"
        /\ last.decision = "reject"
        /\ last.calls = <<>>

\* C8: a failure while scan_vault handles a document is recorded as failed for
\* that document and does not end the scan
C8_ScanResilience ==
    (scan.pc # "idle" /\ Called /\ last.failed_at # "none") =>
        /\ scan.pc # "raised"
        /\ LastKey \in DOMAIN tracking_data.failed

\* C9: the counts scan_vault returns are the numbers of documents converted,
\* skipped as unchanged and failed, and total is their sum
C9_ScanCounts ==
    scan.pc = "done" =>
        /\ scan.stats = scan.truth
        /\ scan.stats.total =
             scan.stats.processed + scan.stats.skipped + scan.stats.failed

\* C10: when extraction or rendering failed, the .md file is as it was, a failed
\* entry with the error and a timestamp is recorded, and the store is on disk
C10_NoArtifactOnFailure ==
    (Called /\ last.failed_at \in {"extraction", "rendering"}) =>
        /\ md[md_path_of(last.path)] = last.pre_md
        /\ is_relative_to(last.path, vault_root)
        /\ LastKey \in DOMAIN tracking_data.failed
        /\ tracking_data.failed[LastKey].error = last.error
        /\ tracking_data.failed[LastKey].timestamp \in 0..MaxClock
        /\ tracking_file = json_dump(tracking_data)

\* C11: the converter constructed after a scan was interrupted holds the records
\* of every document recorded before the interrupted one
C11_CrashSafety ==
    last.op = "__init__" =>
        LET lost == relative_to(last.interrupted, vault_root)
        IN  /\ \A k \in DOMAIN last.recorded.processed \ {lost} :
                 Entry(tracking_data.processed, k) = last.recorded.processed[k]
            /\ \A k \in DOMAIN last.recorded.failed \ {lost} :
                 Entry(tracking_data.failed, k) = last.recorded.failed[k]

\* C12: on every malformed tracking file the converter is constructed with the
\* empty store, and convert_pdf (on a path under the root), scan_vault and
\* print_stats then do not raise
C12_CorruptionRecovery ==
    /\ (last.op = "init" /\ ~is_store_text(tracking_file)) => tracking_data = EmptyStore
    /\ (Called /\ is_relative_to(last.path, vault_root)) => last.ret # "raise"
    /\ last.op = "print_stats" => last.ret # "raise"

\* C13: a forced convert_pdf of a path that passes the in-vault test runs
\* extraction whatever the store holds: no skip decision is taken, nothing is read
\* or raised before the first strategy is called
C13_ForceFlag ==
    (Called /\ last.force /\ in_vault(last.path)) =>
        /\ last.decision = "process"
        /\ last.reason = "forced"
        /\ last.failed_at # "decision"
        /\ Len(last.calls) >= 1
        /\ last.calls[1] = "pdfplumber"

\* C13's case: a forced call converted a PDF whose record held the fingerprint
\* of its present content
C13_ForcedOverMatch ==
    /\ Called
    /\ last.force
    /\ last.pre_processed # NoEntry
    /\ last.pre_processed.hash = md5(last.content)
    /\ last.calls = <<"pdfplumber">>
    /\ last.ret = "True"

\* the lowercased folder path of a PDF, relative to the root
FolderPath(pdf_path) == lower(str_relative(parent(relative_to(pdf_path, vault_root))))

\* the rules whose pattern is a substring of the folder path
Matching(pdf_path) ==
    {i \in 1..Len(category_patterns) :
        contains(FolderPath(pdf_path), category_patterns[i].pattern)}

\* C14: _categorize_from_path returns the category of the first rule, in the
\* declared order, whose pattern is a substring of the lowercased folder path
\* below the root, and "general" when no rule matches; the result is determined
\* by the path
C14_Classification ==
    last.op = "_categorize_from_path" =>
        IF Matching(last.path) = {}
        THEN last.category = general
        ELSE \E i \in Matching(last.path) :
                /\ \A j \in Matching(last.path) : i <= j
                /\ last.category = category_patterns[i].category

\* C14's case: two rules match the path, and the category is the earlier rule's
\* though the later rule's pattern comes first in the path
C14_FirstRuleWins ==
    /\ last.op = "_categorize_from_path"
    /\ Matching(last.path) = {4, 5}
    /\ startswith(FolderPath(last.path), category_patterns[5].pattern)
    /\ last.category = category_patterns[4].category

\* the elements of a list
Elements(q) == {q[i] : i \in 1..Len(q)}

\* the tags the claim names for a path, a text and a category
ExpectedTags(pdf_path, text_content, category) ==
    LET segments == parent(relative_to(pdf_path, vault_root))
        normalized(seg) == replace(replace(lower(Chars[seg]), "_", "-"), " ", "-")
    IN  ({normalized(segments[i]) : i \in 1..Len(segments)} \ tag_stoplist)
        \cup {c \in {category} : c # general}
        \cup {t \in {notable_figure} :
                \E figure \in notable_figures : contains(lower(text_content), figure)}

\* C15: _generate_tags returns a strictly ascending list whose elements are the
\* normalized names of the folders not in the stoplist, the category unless it
\* is "general", and "notable-figure" iff the lowercased text contains a notable
\* name; being strictly ascending, the list is the same at every call
C15_TagGeneration ==
    last.op = "_generate_tags" =>
        /\ \A i \in 1..(Len(last.tags) - 1) : str_less(last.tags[i], last.tags[i + 1])
        /\ Elements(last.tags) = ExpectedTags(last.path, last.text, last.category)

\* C15's case: a folder in the stoplist, a folder whose tag is the category, a
\* folder with an underscore, a text naming a figure: three tags, in order
C15_SortedUnion ==
    /\ last.op = "_generate_tags"
    /\ last.path = Vault \o <<"Books", "my_files", "a_pdf">>
    /\ last.text = TextJobs
    /\ last.category = category_patterns[4].category
    /\ last.tags = <<category_patterns[4].category,
                     <<"m", "y", "-", "f", "i", "l", "e", "s">>,
                     notable_figure>>

\* the path of the last call has a record, under "processed" or "failed"
HasRecord ==
    /\ is_relative_to(last.path, vault_root)
    /\ \/ LastKey \in DOMAIN tracking_data.processed
       \/ LastKey \in DOMAIN tracking_data.failed

\* C16: a path has a record if and only if extraction was attempted for it at
\* least once: after every call the path has a record exactly when it had one
\* before or the call began extraction (no record exists before the first call)
C16_RecordIffAttempted ==
    Called =>
        (HasRecord <=>
            (last.pre_processed # NoEntry \/ last.pre_failed # NoEntry \/ Attempted))

\* the PDFs under the root whose path below the root has no excluded name
Eligible ==
    {p \in rglob_pdf :
        \A i \in 1..Len(relative_to(p, vault_root)) :
            relative_to(p, vault_root)[i] \notin skip_dirs}

\* C17: scan_vault passes to convert_pdf only PDFs under the root with no
\* excluded name below the root, each once, and when it returns it has passed
\* every one of them and total is their number
C17_ScanEnumeration ==
    /\ scan.pc \in {"running", "done"} =>
          /\ \A i \in 1..Len(scan.done) : scan.done[i] \in Eligible
          /\ \A i, j \in 1..Len(scan.done) : scan.done[i] = scan.done[j] => i = j
    /\ scan.pc = "done" =>
          /\ \A p \in Eligible : \E i \in 1..Len(scan.done) : scan.done[i] = p
          /\ scan.stats.total = Len(scan.done)

\* C18: after a convert_pdf that returned True the path has a processed record
\* with the fingerprint of the file, the time of the conversion, the path of the
\* .md sibling below the root, the category, the tags and the strategy that gave
\* the text; it has no failed entry; the .md file is there; the tracking file
\* holds the store
C18_SuccessPostcondition ==
    (Called /\ last.ret = "True") =>
        /\ is_relative_to(last.path, vault_root)
        /\ LastKey \in DOMAIN tracking_data.processed
        /\ LET rec == tracking_data.processed[LastKey]
           IN  /\ DOMAIN rec = {"hash", "converted_date", "md_path", "category", "tags",
                                "method"}
               /\ rec.hash = md5(files[last.path])
               /\ rec.converted_date = clock - 1
               /\ rec.md_path = relative_to(with_suffix(last.path, <<".", "m", "d">>),
                                            vault_root)
               /\ rec.category = categorize_from_path(last.path)
               /\ rec.tags \in generate_tags(last.path, last.content.words, rec.category)
               /\ rec.method = (IF last.primary.ok THEN "pdfplumber" ELSE "llamaparse")
               /\ last.primary.ok \/ last.secondary.ok
               /\ md[md_path_of(last.path)].tags = rec.tags
        /\ LastKey \notin DOMAIN tracking_data.failed
        /\ md[md_path_of(last.path)] \notin {NoFile, PartialFile}
        /\ tracking_file = json_dump(tracking_data)

\* C18's case: a PDF that had a failed entry was converted by LlamaParse
C18_ConvertedAfterFailure ==
    /\ Called
    /\ last.ret = "True"
    /\ last.pre_failed # NoEntry
    /\ last.calls = <<"pdfplumber", "llamaparse">>
    /\ tracking_data.processed[LastKey].method = "llamaparse"

\* C19: when migrate_qdrant_to_cloud has returned True, every collection of the
\* local storage, the empty ones too, is in the cloud with the same vector size,
\* the same distance and the same number of points
C19_MigrationComplete ==
    (migration.pc = "returned" /\ migration.ret = "True") =>
        \A name \in DOMAIN local_client :
            /\ name \in DOMAIN cloud_client
            /\ cloud_client[name].size = local_client[name].size
            /\ cloud_client[name].distance = local_client[name].distance
            /\ Cardinality(cloud_client[name].points)
                 = Cardinality(local_client[name].points)

\* C20: after a convert_pdf that returned True, the fingerprint stored in the
\* processed record of the path is the fingerprint of the file content the written
\* Markdown was extracted from, whatever another actor did to the file during the
\* call; and a call that skips a path as unchanged finds the Markdown of the path
\* extracted from what the file holds
C20_FingerprintOfExtracted ==
    /\ (Called /\ last.ret = "True") =>
          tracking_data.processed[LastKey].hash
            = md5(md[md_path_of(last.path)].text_of)
    /\ (Called /\ last.decision = "skip") =>
          md[md_path_of(last.path)].text_of = files[last.path]

\* the ids of the points of a batch
PointIds(points) == {r.id : r \in points}

\* the upload of the iteration observed stored every local point exactly once and
\* unchanged, in batches of at most batch_size, and counted them all
UploadedAll ==
    LET it == migration.iteration
        local_points == local_client[it.collection].points
    IN  /\ \A i \in DOMAIN it.upserted : Cardinality(it.upserted[i]) <= batch_size
        /\ \A i \in DOMAIN it.upserted : \A j \in DOMAIN it.upserted :
              i # j => PointIds(it.upserted[i]) \cap PointIds(it.upserted[j]) = {}
        /\ UNION {it.upserted[i] : i \in DOMAIN it.upserted} = local_points
        /\ cloud_client[it.collection].points = local_points
        /\ migration.migrated_count = Cardinality(local_points)

\* a step that upserts a batch finds the collection created in the cloud
UpsertAfterCreate ==
    Len(migration'.iteration.upserted) > Len(migration.iteration.upserted) =>
        /\ migration.iteration.create = "ok"
        /\ migration.iteration.collection \in DOMAIN cloud_client

C22_BlanketSuppression ==
    LET it == migration.iteration
    IN  it.lookup # "not called" =>
            /\ it.create \in {"ok", "error"}
            /\ it.loop = "not entered" => it.create = "error"
            /\ (it.lookup = "error" \/ it.delete = "error") /\ it.create = "ok"
                  => it.loop # "not entered"

\* C22's case: get_collection raised something other than not-found, the
\* collection was created all the same and its upload began
C22_SwallowedThenCreated ==
    /\ migration.iteration.lookup = "error"
    /\ migration.iteration.create = "ok"
    /\ migration.iteration.loop = "running"
    /\ migration.iteration.collection \in DOMAIN cloud_client


\* position i of the three lists of a get_by_ids result describes one point: the
\* id is stored, the document is the point's text and the metadata its payload
\* without "text"
SamePoint(result, i) ==
    /\ result.ids[i] \in DOMAIN client
    /\ result.documents[i] = get_text(client[result.ids[i]].payload)
    /\ result.metadatas[i] = Del(client[result.ids[i]].payload, "text")

\* C23: the lists 'ids', 'documents' and 'metadatas' get_by_ids returns have one
\* length and position i of each describes the same point, whatever the ids asked
\* for; and get_by_ids(ids) right after add_documents(docs, metadatas, ids) gives
\* docs[i] and metadatas[i] less its "text" key at position i
C23_ResultAlignment ==
    last.op = "get_by_ids" =>
        /\ Len(last.result.documents) = Len(last.result.ids)
        /\ Len(last.result.metadatas) = Len(last.result.ids)
        /\ \A i \in DOMAIN last.result.ids : SamePoint(last.result, i)
        /\ (last.before # NoEntry /\ last.before.ids_given) =>
              \A i \in DOMAIN last.ids :
                 /\ last.result.documents[i] = last.before.documents[i]
                 /\ last.result.metadatas[i]
                      = IF last.before.metadatas_given
                        THEN Del(last.before.given[i], "text")
                        ELSE <<>>


\* the keys of the store, before or after a step, other than the key of pdf_path
OtherKeys(pdf_path) ==
    (DOMAIN tracking_data.processed \cup DOMAIN tracking_data.failed
       \cup DOMAIN tracking_data'.processed \cup DOMAIN tracking_data'.failed)
    \ (IF is_relative_to(pdf_path, vault_root)
       THEN {relative_to(pdf_path, vault_root)} ELSE {})

\* a whole Markdown document: the frontmatter fields, then the text extracted
WholeDocument(doc, pdf_path, extracted) ==
    /\ DOMAIN doc = {"category", "tags", "pdf_path", "converted_date", "text_of", "method"}
    /\ doc.pdf_path = relative_to(pdf_path, vault_root)
    /\ doc.category = categorize_from_path(pdf_path)
    /\ doc.text_of = extracted

\* C24: a call of convert_pdf(p), alone or in a scan, leaves every PDF, the .md
\* file of every other path and the records of every other path as they were; a
\* call that skips leaves the .md files, the store and the tracking file as they
\* were; and when the .md sibling of p changes, what it held is replaced by
\* frontmatter followed by the text extracted (by nothing more than the start of
\* it when the write fails)
C24_Frame ==
    [][last'.op = "convert_pdf" =>
         LET pdf_path == last'.path
             out == md_path_of(pdf_path)
         IN  /\ files' = files
             /\ \A q \in DOMAIN md : q # out => md'[q] = md[q]
             /\ \A k \in OtherKeys(pdf_path) :
                   /\ Entry(tracking_data'.processed, k) = Entry(tracking_data.processed, k)
                   /\ Entry(tracking_data'.failed, k) = Entry(tracking_data.failed, k)
             /\ last'.decision \in {"skip", "reject"} =>
                   UNCHANGED <<md, tracking_data, tracking_file>>
             /\ md'[out] # md[out] =>
                   \/ md'[out] = PartialFile
                   \/ WholeDocument(md'[out], pdf_path, last'.extracted)]_vars

\* C24's case: a PDF was converted while another path had its record and its .md
\* file, which are in place
C24_ConvertedBesideOthers ==
    /\ Called
    /\ last.ret = "True"
    /\ \E q \in AllPaths :
         /\ q # last.path
         /\ is_relative_to(q, vault_root)
         /\ relative_to(q, vault_root) \in DOMAIN tracking_data.processed
         /\ md[md_path_of(q)] \notin {NoFile, PartialFile}


====
